---- MODULE Spec2Model ----
(***************************************************************************)
(* A model of q2mm's optimization-loop interpreter (src/loop.py) and of    *)
(* its data dispatch engine (src/calculate.py).                            *)
(*                                                                         *)
(* Python values are modelled as follows.                                  *)
(*   - None / an optional value: the empty sequence <<>> is None and the   *)
(*     one-element sequence <<v>> is the value v.                          *)
(*   - a score is a real number; the model keeps it as an integer number   *)
(*     of hundredths (1000 is 10.00).  A threshold is kept in hundredths   *)
(*     too (2 is 0.02).  The quotient (prev - score) / prev is kept as the *)
(*     exact fraction [n |-> prev - score, d |-> prev] and compared by     *)
(*     cross-multiplication.                                               *)
(*   - a script line is the sequence of its whitespace-separated columns   *)
(*     (the value of line.split()).                                        *)
(*   - an uncaught Python exception ends the program: status holds the     *)
(*     exception's name and no action is enabled any more.  In             *)
(*     collect_data the exception's name is in cst.err.                    *)
(*   - a token of a command group is the sequence of the filenames joined  *)
(*     by commas in it (the value of token.split(',')).                    *)
(*   - a str whose characters the code looks at (a line of a reference     *)
(*     file, a label) is the sequence of its characters; weights and       *)
(*     values of a reference file are kept in thousandths.                 *)
(*   - collect_data is modelled one token at a time: each pass through the *)
(*     body of its innermost loops is one step.  Spec is the loop          *)
(*     interpreter, SpecCollect collect_data over command tables, SpecRef  *)
(*     collect_data over reference files.                                  *)
(***************************************************************************)
EXTENDS Integers, Sequences, FiniteSets, TLC

VARIABLES
    stack,      \* the active Loop objects, outermost first; the last one runs
    status,     \* "running", "done", or the name of the uncaught exception
    nextOid,    \* identity given to the next force-field object created
    last,       \* the most recent call to an external collaborator
    created,    \* number of Loop objects created so far by LOOP directives
    coms,       \* collect_data: the command table (command -> groups)
    order,      \* collect_data: the order coms.iteritems() yields commands
    cpos,       \* collect_data: index of the next token to process
    cst,        \* collect_data: outs, data, the parses made, the exception
    matN,       \* the dimension N of the matrices in the files on disk
    ref,        \* the lines of the reference file ref.txt
    returned    \* None, or the list collect_data has returned

loopVars == <<stack, status, nextOid, last, created>>

collectVars == <<coms, order, cpos, cst, matN, ref, returned>>

vars == <<stack, status, nextOid, last, created, coms, order, cpos, cst,
          matN, ref, returned>>

\* ----------------------------------------------------------------- bounds

\* A Loop starts at most MaxCycles cycles in the model.
MaxCycles == 3

\* Every script of at most MaxShortLen lines over ShortLines is an input.
MaxShortLen == 2

\* The matrices in the files on disk are N x N for an N in 1..MaxN.
MaxN == 3

\* A command table holds at most MaxComs commands.
MaxComs == 2

\* A reference file has at most MaxRefLines lines.
MaxRefLines == 2

\* ----------------------------------------------------------- Python values

None == <<>>

Some(v) == <<v>>

IsNone(x) == x = <<>>

Val(x) == x[1]

\* Python truthiness of an optional number: None and 0.0 are false.
Truthy(x) == ~IsNone(x) /\ Val(x) # 0

\* The scores the external comparator and optimizer may return (hundredths).
ScoreSet == {0, 890, 891, 900, 1000}

\* float(token) for the threshold tokens used in the scripts, in hundredths;
\* any other token makes float() raise ValueError.
FloatTokens == {"0", "0.02", "0.1", "0.5", "-0.5"}

Float(tok) ==
    CASE tok = "0" -> 0
      [] tok = "0.02" -> 2
      [] tok = "0.1" -> 10
      [] tok = "0.5" -> 50
      [] tok = "-0.5" -> -50

\* A variant of ChangeGreater that tests the absolute change prev - score
\* instead of the relative one.
ChangeGreaterAbsolute(change, conv) == change.n * 100 > conv * 100

\* A variant of ChangeGreater that tests the magnitude of the change.
ChangeGreaterMagnitude(change, conv) ==
    LET m == IF change.n < 0 THEN -change.n ELSE change.n
    IN  m * 100 > conv * change.d

\* change > self.convergence, for change = n / d (d # 0) and the threshold
\* conv in hundredths.
ChangeGreater(change, conv) ==
    IF change.d > 0
    THEN change.n * 100 > conv * change.d
    ELSE change.n * 100 < conv * change.d

\* ------------------------------------------------------------ Loop objects

\* A local variable of run_loop_input that has not been assigned yet.
Unbound == <<>>

\* Loop.__init__, with the locals of the object's current run_loop_input
\* call (lines, pos, ref_conn, cal_conn, loop), the local change of opt_loop and
\* the place the object is at: "body" (in run_loop_input) or "while" (at
\* the test of opt_loop's while statement).
NewLoop ==
    [convergence |-> 1, current_cycle_num |-> 0, ff |-> None,
     ff_args |-> None, ff_lines |-> None, loop_lines |-> None,
     ref_args |-> None, score |-> None, score_init |-> None,
     score_prev |-> None,
     change |-> None, lines |-> <<>>, pos |-> 1,
     ref_conn |-> Unbound, cal_conn |-> Unbound, loop |-> Unbound,
     at |-> "body"]

\* datatypes.import_ff(path): a new force-field object.
import_ff(path, oid) ==
    [oid |-> oid, src |-> path, parm |-> <<>>, gen |-> 0, score |-> None]

\* parameters.trim_params_by_file applied to the object's params.
trim_params_by_file(ff, path) == [ff EXCEPT !.parm = Append(@, path)]

\* optimizer.Gradient(...).run(): the updated force field, with its score.
GradientRun(ff, oid, s) ==
    [ff EXCEPT !.oid = oid, !.gen = @ + 1, !.score = Some(s)]

NoCall == [op |-> "none", ff |-> None, ref |-> Unbound, cal |-> Unbound,
           path |-> "", depth |-> 0]

Running == status = "running"

Top == stack[Len(stack)]

\* A variant of SetTop in which the step is taken by the outermost Loop
\* instead of the one that is running.
SetOutermost(f) == [stack EXCEPT ![1] = f]

\* The step leaves the running Loop as f and the others as they are.
SetTop(f) == [stack EXCEPT ![Len(stack)] = f]

Cols == Top.lines[Top.pos]

HasLine == Running /\ Top.at = "body" /\ Top.pos <= Len(Top.lines)

Known == {"FFLD", "PARM", "LOOP", "RDAT", "CDAT", "COMP", "GRAD"}

\* A variant of AtLine in which a first column that is no directive is
\* taken for COMP.
AtLineOrUnknown(op) ==
    /\ HasLine
    /\ Cols # <<>>
    /\ IF op = "COMP" THEN Cols[1] = op \/ Cols[1] \notin Known
       ELSE Cols[1] = op

\* The next line is a directive op.
AtLine(op) == HasLine /\ Cols # <<>> /\ Cols[1] = op

Advance(f) == [f EXCEPT !.pos = @ + 1]

Raise(e) ==
    /\ status' = e
    /\ UNCHANGED <<collectVars, stack, nextOid, last, created>>

Min(S) == CHOOSE x \in S : \A y \in S : x <= y

\* A variant of ScanStop in which the last line ends the body of a LOOP
\* that no END follows.
ScanStopAtLastLine(lines, p) ==
    LET c == {j \in p..Len(lines) : lines[j] = <<>> \/ lines[j][1] = "END"}
    IN  IF c # {} THEN Min(c) ELSE IF p <= Len(lines) THEN Len(lines) ELSE 0

\* Index of the first line from p on that stops the scan of a LOOP body:
\* an END line, or a line without columns (split()[0] raises IndexError);
\* 0 when the iterator runs out first.
ScanStop(lines, p) ==
    LET c == {j \in p..Len(lines) : lines[j] = <<>> \/ lines[j][1] = "END"}
    IN  IF c = {} THEN 0 ELSE Min(c)

\* The condition of opt_loop's while statement.
WhileCond(f) ==
    IF IsNone(f.score_prev) THEN TRUE
    ELSE IF IsNone(f.change) THEN TRUE
    ELSE ChangeGreater(Val(f.change), f.convergence)

\* A variant of ChangeError in which a division by zero raises nothing.
ChangeErrorUnlessZero(prev, score) ==
    IF IsNone(prev) \/ IsNone(score) THEN "TypeError" ELSE "none"

\* change = (self.score_prev - self.score) / self.score_prev: the name of
\* the exception raised, or "none".
ChangeError(prev, score) ==
    IF IsNone(prev) \/ IsNone(score) THEN "TypeError"
    ELSE IF Val(prev) = 0 THEN "ZeroDivisionError"
    ELSE "none"

ChangeValue(prev, score) == [n |-> Val(prev) - Val(score), d |-> Val(prev)]

\* ------------------------------------------------------- run_loop_input

\* cols = line.split(); cols[0] on a line without columns.
EmptyLine ==
    /\ HasLine
    /\ Cols = <<>>
    /\ Raise("IndexError")

FFLD_read ==
    /\ AtLine("FFLD")
    /\ Len(Cols) >= 2
    /\ Cols[2] = "read"
    /\ IF Len(Cols) < 3
       THEN Raise("IndexError")
       ELSE /\ stack' = SetTop(Advance(
                    [Top EXCEPT !.ff = Some(import_ff(Cols[3], nextOid)),
                                !.ff_lines = Some(Cols[3])]))
            /\ nextOid' = nextOid + 1
            /\ last' = [NoCall EXCEPT !.op = "import_ff", !.path = Cols[3],
                                      !.depth = Len(stack)]
            /\ UNCHANGED <<collectVars, status, created>>

FFLD_write ==
    /\ AtLine("FFLD")
    /\ Len(Cols) >= 2
    /\ Cols[2] = "write"
    /\ IF Len(Cols) < 3
       THEN Raise("IndexError")
       ELSE IF IsNone(Top.ff)
       THEN Raise("AttributeError")
       ELSE /\ stack' = SetTop(Advance(Top))
            /\ last' = [NoCall EXCEPT !.op = "export_ff", !.path = Cols[3],
                                      !.ff = Top.ff, !.depth = Len(stack)]
            /\ UNCHANGED <<collectVars, status, nextOid, created>>

\* FFLD without a sub-command raises at cols[1]; another sub-command does
\* nothing.
FFLD_other ==
    /\ AtLine("FFLD")
    /\ IF Len(Cols) < 2
       THEN Raise("IndexError")
       ELSE /\ Cols[2] \notin {"read", "write"}
            /\ stack' = SetTop(Advance(Top))
            /\ UNCHANGED <<collectVars, status, nextOid, last, created>>

PARM ==
    /\ AtLine("PARM")
    /\ IF IsNone(Top.ff)
       THEN Raise("AttributeError")
       ELSE IF Len(Cols) < 2
       THEN Raise("IndexError")
       ELSE /\ stack' = SetTop(Advance(
                    [Top EXCEPT !.ff = Some(trim_params_by_file(
                                                Val(Top.ff), Cols[2]))]))
            /\ last' = [NoCall EXCEPT !.op = "trim_params", !.path = Cols[2],
                                      !.ff = Top.ff, !.depth = Len(stack)]
            /\ UNCHANGED <<collectVars, status, nextOid, created>>

\* The child made by a LOOP directive: only convergence, loop_lines and
\* score are populated.
ChildLoop(conv, body, score) ==
    [NewLoop EXCEPT !.convergence = conv, !.loop_lines = Some(body),
                    !.score = score, !.at = "while"]

LOOP ==
    /\ AtLine("LOOP")
    /\ LET j == ScanStop(Top.lines, Top.pos + 1)
       IN  IF j = 0
           THEN Raise("StopIteration")
           ELSE IF Top.lines[j] = <<>>
           THEN Raise("IndexError")
           ELSE IF Len(Cols) < 2
           THEN Raise("IndexError")
           ELSE IF Cols[2] \notin FloatTokens
           THEN Raise("ValueError")
           ELSE /\ stack' = Append(
                        SetTop([Top EXCEPT !.pos = j + 1]),
                        ChildLoop(Float(Cols[2]),
                                  SubSeq(Top.lines, Top.pos + 1, j - 1),
                                  Top.score))
                /\ created' = created + 1
                /\ UNCHANGED <<collectVars, status, nextOid, last>>

RDAT ==
    /\ AtLine("RDAT")
    /\ stack' = SetTop(Advance(
            [Top EXCEPT !.ref_args = Some(Tail(Cols)),
                        !.ref_conn = Some(Tail(Cols))]))
    /\ last' = [NoCall EXCEPT !.op = "calculate_ref",
                              !.ref = Some(Tail(Cols)), !.depth = Len(stack)]
    /\ UNCHANGED <<collectVars, status, nextOid, created>>

CDAT ==
    /\ AtLine("CDAT")
    /\ stack' = SetTop(Advance(
            [Top EXCEPT !.ff_args = Some(Tail(Cols)),
                        !.cal_conn = Some(Tail(Cols))]))
    /\ last' = [NoCall EXCEPT !.op = "calculate_ff",
                              !.cal = Some(Tail(Cols)), !.depth = Len(stack)]
    /\ UNCHANGED <<collectVars, status, nextOid, created>>

\* cols.index('-o') + 1 is a column of the line.
OutputOk(cols) ==
    LET i == Min({k \in 1..Len(cols) : cols[k] = "-o"})
    IN  i + 1 <= Len(cols)

COMP ==
    /\ AtLine("COMP")
    /\ IF (\E k \in 1..Len(Cols) : Cols[k] = "-o") /\ ~OutputOk(Cols)
       THEN Raise("IndexError")
       ELSE IF Top.ref_conn = Unbound \/ Top.cal_conn = Unbound
       THEN Raise("UnboundLocalError")
       ELSE \E s \in ScoreSet :
            /\ stack' = SetTop(Advance([Top EXCEPT !.score = Some(s)]))
            /\ last' = [NoCall EXCEPT !.op = "compare_data",
                                      !.ref = Top.ref_conn,
                                      !.cal = Top.cal_conn,
                                      !.depth = Len(stack)]
            /\ UNCHANGED <<collectVars, status, nextOid, created>>

GRAD ==
    /\ AtLine("GRAD")
    /\ IF Top.ref_conn = Unbound
       THEN Raise("UnboundLocalError")
       ELSE IF IsNone(Top.ff)
       THEN Raise("AttributeError")
       ELSE \E s \in ScoreSet :
            /\ stack' = SetTop(Advance(
                    [Top EXCEPT !.ff = Some(GradientRun(Val(Top.ff),
                                                        nextOid, s)),
                                !.score = Some(s)]))
            /\ nextOid' = nextOid + 1
            /\ last' = [NoCall EXCEPT !.op = "gradient", !.ff = Top.ff,
                                      !.ref = Top.ref_conn,
                                      !.depth = Len(stack)]
            /\ UNCHANGED <<collectVars, status, created>>

\* A first column that no if statement of run_loop_input matches.
Unrecognized ==
    /\ HasLine
    /\ Cols # <<>>
    /\ Cols[1] \notin Known
    /\ stack' = SetTop(Advance(Top))
    /\ UNCHANGED <<collectVars, status, nextOid, last, created>>

\* StopIteration at the top of the while loop: run_loop_input returns
\* self.score.  In the outermost Loop that ends the program; in a child it
\* returns into opt_loop, which computes change.
EndOfLines ==
    /\ Running
    /\ Top.at = "body"
    /\ Top.pos > Len(Top.lines)
    /\ IF Len(stack) = 1
       THEN /\ status' = "done"
            /\ UNCHANGED <<collectVars, stack, nextOid, last, created>>
       ELSE IF ChangeError(Top.score_prev, Top.score) # "none"
       THEN Raise(ChangeError(Top.score_prev, Top.score))
       ELSE /\ stack' = SetTop(
                    [Top EXCEPT !.change = Some(ChangeValue(Top.score_prev,
                                                            Top.score)),
                                !.at = "while"])
            /\ UNCHANGED <<collectVars, status, nextOid, last, created>>

\* ---------------------------------------------------------------- opt_loop

\* The while test succeeds: the next cycle starts and run_loop_input is
\* called on loop_lines with score = self.score.
OptLoopCycle ==
    /\ Running
    /\ Top.at = "while"
    /\ WhileCond(Top)
    /\ Top.current_cycle_num < MaxCycles
    /\ stack' = SetTop(
            [Top EXCEPT !.current_cycle_num = @ + 1,
                        !.score_prev = Top.score,
                        !.score = IF Truthy(Top.score) THEN Top.score ELSE @,
                        !.lines = Val(Top.loop_lines),
                        !.pos = 1,
                        !.ref_conn = Unbound,
                        !.cal_conn = Unbound,
                        !.loop = Unbound,
                        !.at = "body"])
    /\ UNCHANGED <<collectVars, status, nextOid, last, created>>

\* The while test fails: opt_loop returns self.score and the enclosing
\* run_loop_input stores it (self.score = loop.opt_loop()); its local loop
\* still names the child.
OptLoopReturn ==
    /\ Running
    /\ Top.at = "while"
    /\ ~WhileCond(Top)
    /\ stack' = [SubSeq(stack, 1, Len(stack) - 1)
                    EXCEPT ![Len(stack) - 1].score = Top.score,
                           ![Len(stack) - 1].loop = Some(Top)]
    /\ UNCHANGED <<collectVars, status, nextOid, last, created>>

\* ----------------------------------------------------------- Python str
\* A str whose characters the code looks at (a line of a reference file, a
\* label) is the sequence of its characters.

\* The str of a literal of the code.
Chars(str) ==
    CASE str = "e" -> <<"e">>
      [] str = "eo" -> <<"e", "o">>
      [] str = "q" -> <<"q">>
      [] str = "eig" -> <<"e", "i", "g">>
      [] str = "angles" -> <<"a", "n", "g", "l", "e", "s">>
      [] str = "bonds" -> <<"b", "o", "n", "d", "s">>
      [] str = "torsions" -> <<"t", "o", "r", "s", "i", "o", "n", "s">>

Whitespace == {" ", "\t", "\n"}

Digits == {"0", "1", "2", "3", "4", "5", "6", "7", "8", "9"}

DigitValue(c) ==
    CASE c = "0" -> 0 [] c = "1" -> 1 [] c = "2" -> 2 [] c = "3" -> 3
      [] c = "4" -> 4 [] c = "5" -> 5 [] c = "6" -> 6 [] c = "7" -> 7
      [] c = "8" -> 8 [] c = "9" -> 9

\* Index of the first character of s that is in set cs, 0 when none is.
FirstIn(s, cs) ==
    LET hit == {i \in 1..Len(s) : s[i] \in cs}
    IN  IF hit = {} THEN 0 ELSE Min(hit)

\* s.partition(c)[0]
PartitionHead(s, c) ==
    IF FirstIn(s, {c}) = 0 THEN s ELSE SubSeq(s, 1, FirstIn(s, {c}) - 1)

RECURSIVE SplitOn(_, _)
\* s.split(c): the pieces between the occurrences of c, empty ones kept.
SplitOn(s, c) ==
    IF FirstIn(s, {c}) = 0 THEN <<s>>
    ELSE <<SubSeq(s, 1, FirstIn(s, {c}) - 1)>>
         \o SplitOn(SubSeq(s, FirstIn(s, {c}) + 1, Len(s)), c)

RECURSIVE SplitWhitespace(_)
\* s.split(): the runs of characters that are not whitespace.
SplitWhitespace(s) ==
    IF s = <<>> THEN <<>>
    ELSE IF s[1] \in Whitespace THEN SplitWhitespace(Tail(s))
    ELSE LET stop == FirstIn(s, Whitespace)
         IN  IF stop = 0 THEN <<s>>
             ELSE <<SubSeq(s, 1, stop - 1)>>
                  \o SplitWhitespace(SubSeq(s, stop, Len(s)))

RECURSIVE DigitsValue(_)
DigitsValue(s) ==
    IF s = <<>> THEN 0
    ELSE DigitsValue(SubSeq(s, 1, Len(s) - 1)) * 10 + DigitValue(s[Len(s)])

IsDigits(s) == s # <<>> /\ \A i \in 1..Len(s) : s[i] \in Digits

Unsigned(s) == IF s # <<>> /\ s[1] \in {"-", "+"} THEN Tail(s) ELSE s

Sign(s) == IF s # <<>> /\ s[1] = "-" THEN -1 ELSE 1

\* int(s) raises ValueError unless s is an optional sign and digits.
IntOk(s) == IsDigits(Unsigned(s))

IntOf(s) == Sign(s) * DigitsValue(Unsigned(s))

\* float(s) for a decimal literal (an optional sign, digits, and at most
\* one point): ValueError unless s is one.
FloatOk(s) ==
    LET u == Unsigned(s)
        dot == FirstIn(u, {"."})
    IN  IF dot = 0 THEN IsDigits(u)
        ELSE /\ Len(u) > 1
             /\ \A i \in 1..Len(u) : i # dot => u[i] \in Digits

\* The value of float(s) in thousandths, digits after the third decimal
\* dropped.
FloatOf(s) ==
    LET u == Unsigned(s)
        dot == FirstIn(u, {"."})
        whole == IF dot = 0 THEN u ELSE SubSeq(u, 1, dot - 1)
        frac == IF dot = 0 THEN <<>> ELSE SubSeq(u, dot + 1, Len(u))
        frac3 == SubSeq(frac \o <<"0", "0", "0">>, 1, 3)
    IN  Sign(s) * (DigitsValue(whole) * 1000 + DigitsValue(frac3))

RECURSIVE SeqsUpTo(_, _)
\* The sequences of at most n elements of S.
SeqsUpTo(S, n) ==
    IF n = 0 THEN {<<>>}
    ELSE SeqsUpTo(S, n - 1)
         \cup {Append(q, x) : q \in {p \in SeqsUpTo(S, n - 1) : Len(p) = n - 1},
                              x \in S}

\* -------------------------------------------------------- read_loop_input
\* Lines of script files, character by character; the comment above each
\* is the line as it reads in the file.
RawLines ==
    <<
      \* 1: FFLD read mm3.fld # force field
      <<"F", "F", "L", "D", " ", "r", "e", "a", "d", " ", "m", "m",
        "3", ".", "f", "l", "d", " ", "#", " ", "f", "o", "r", "c",
        "e", " ", "f", "i", "e", "l", "d", "\n">>,
      \* 2: three spaces
      <<" ", " ", " ", "\n">>,
      \* 3:   # note
      <<" ", " ", "#", " ", "n", "o", "t", "e", "\n">>,
      \* 4: # note
      <<"#", " ", "n", "o", "t", "e", "\n">>,
      \* 5: an empty line
      <<"\n">>,
      \* 6: SIMP
      <<"S", "I", "M", "P", "\n">>
    >>

\* x.strip('\n')
StripNewlines(x) ==
    LET keep == {i \in 1..Len(x) : x[i] # "\n"}
    IN  IF keep = {} THEN <<>>
        ELSE SubSeq(x, Min(keep), CHOOSE i \in keep : \A j \in keep : j <= i)

\* read_loop_input: the lines of the file up to their '#', without their
\* newlines, that are not the empty str.
read_loop_input(raw) ==
    SelectSeq([i \in 1..Len(raw) |-> StripNewlines(PartitionHead(raw[i], "#"))],
              LAMBDA x : x # <<>>)

\* A column of a line as the model writes the columns of script lines.
Word(w) ==
    CASE w = <<"F", "F", "L", "D">> -> "FFLD"
      [] w = <<"r", "e", "a", "d">> -> "read"
      [] w = <<"m", "m", "3", ".", "f", "l", "d">> -> "mm3.fld"
      [] w = <<"S", "I", "M", "P">> -> "SIMP"

\* The scripts main reads from files of at most MaxShortLen lines: each
\* line is its columns, line.split().
ReadScripts ==
    {[i \in 1..Len(read_loop_input(raw)) |->
        [k \in 1..Len(SplitWhitespace(read_loop_input(raw)[i])) |->
            Word(SplitWhitespace(read_loop_input(raw)[i])[k])]] :
     raw \in SeqsUpTo({RawLines[i] : i \in DOMAIN RawLines}, MaxShortLen)}

\* ------------------------------------------------------------ the scripts

L_RDAT == <<"RDAT", "-r", "ref.txt">>

L_CDAT == <<"CDAT", "-me", "a.mae">>

L_COMP == <<"COMP">>

L_COMP_o == <<"COMP", "-o", "out.txt">>

L_GRAD == <<"GRAD">>

L_END == <<"END">>

L_FFLD_read == <<"FFLD", "read", "mm3.fld">>

L_FFLD_write == <<"FFLD", "write", "new.fld">>

L_PARM == <<"PARM", "parm.txt">>

L_LOOP(t) == <<"LOOP", t>>

\* The lines the short scripts are made of: every directive, well formed
\* and with columns missing, a line without columns, an unknown directive.
ShortLines ==
    {<<>>, <<"FFLD">>, <<"FFLD", "read">>, <<"FFLD", "print", "x">>,
     L_FFLD_read, L_FFLD_write, <<"PARM">>, L_PARM, <<"LOOP">>,
     <<"LOOP", "x">>, L_LOOP("0.02"), L_END, L_RDAT, L_CDAT, L_COMP,
     <<"COMP", "-o">>, L_GRAD, <<"SIMP">>}

ShortScripts ==
    UNION {[1..n -> ShortLines] : n \in 0..MaxShortLen}

\* A LOOP that follows a COMP: the child starts with a score.
ScoredLoop(t) ==
    <<L_RDAT, L_CDAT, L_COMP, L_LOOP(t), L_RDAT, L_CDAT, L_COMP, L_END,
      <<"SIMP">>, L_COMP_o>>

\* A LOOP that no COMP or GRAD precedes: the child starts without a score.
UnscoredLoop(t) ==
    <<L_FFLD_read, L_LOOP(t), L_RDAT, L_CDAT, L_COMP, L_END, L_FFLD_write>>

\* A LOOP nested in the body of another LOOP.
NestedLoop(t, u) ==
    <<L_RDAT, L_CDAT, L_COMP, L_LOOP(t), L_RDAT, L_CDAT, L_LOOP(u), L_COMP,
      L_END, L_COMP, L_END, L_COMP>>

\* A force field read and trimmed by the parent, optimized in the child.
GradLoop(t) ==
    <<L_FFLD_read, L_PARM, L_RDAT, L_CDAT, L_COMP, L_LOOP(t), L_RDAT, L_GRAD,
      L_FFLD_write, L_END, L_FFLD_write>>

\* The child reads the force field itself; the parent writes it afterwards.
ChildReadsFF(t) ==
    <<L_RDAT, L_CDAT, L_COMP_o, L_LOOP(t), L_FFLD_read, L_PARM, L_RDAT,
      L_GRAD, L_FFLD_write, L_END, L_FFLD_write>>

\* The child relies on the data sets of the enclosing level.
InheritedData(t) ==
    <<L_RDAT, L_CDAT, L_COMP, L_LOOP(t), L_COMP, L_END>>

\* One level: read, trim, compare, optimize, write.
FlatScript ==
    <<L_FFLD_read, L_PARM, L_RDAT, L_CDAT, L_COMP_o, L_GRAD, L_FFLD_write>>

\* A LOOP whose END is missing.
NoEnd(t) == <<L_RDAT, L_CDAT, L_COMP, L_LOOP(t), L_RDAT, L_CDAT, L_COMP>>

Scripts ==
    ShortScripts
    \cup ReadScripts
    \cup {FlatScript}
    \cup {ScoredLoop(t) : t \in FloatTokens}
    \cup {UnscoredLoop(t) : t \in FloatTokens}
    \cup {NestedLoop(t, "0.1") : t \in FloatTokens}
    \cup {GradLoop(t) : t \in FloatTokens}
    \cup {ChildReadsFF(t) : t \in FloatTokens}
    \cup {InheritedData(t) : t \in FloatTokens}
    \cup {NoEnd(t) : t \in FloatTokens}

\* ------------------------------------------------------- the specification

\* loop.main: a new Loop runs run_loop_input on the lines of the script.
Init ==
    /\ \E s \in Scripts : stack = <<[NewLoop EXCEPT !.lines = s]>>
    /\ status = "running"
    /\ nextOid = 1
    /\ last = NoCall
    /\ created = 0
    /\ coms = <<>>
    /\ order = <<>>
    /\ cpos = 1
    /\ cst = <<>>
    /\ matN = 1
    /\ ref = <<>>
    /\ returned = None

Next ==
    \/ EmptyLine
    \/ FFLD_read
    \/ FFLD_write
    \/ FFLD_other
    \/ PARM
    \/ LOOP
    \/ RDAT
    \/ CDAT
    \/ COMP
    \/ GRAD
    \/ Unrecognized
    \/ EndOfLines
    \/ OptLoopCycle
    \/ OptLoopReturn

Spec == Init /\ [][Next]_vars

\* --------------------------------------------------------- files on disk

\* An atom of a structure: its 1-based index, its partial charge (in
\* hundredths), the indices of the atoms bonded to it, its b_q_use_charge
\* property (None when the atom has none) and whether get_aliph_hyds of
\* its structure lists it.
Atom(i, q, bonded, use, aliph) ==
    [index |-> i, partial_charge |-> q, bonded_atom_indices |-> bonded,
     b_q_use_charge |-> use, aliph |-> aliph]

\* A carbon with two aliphatic hydrogens (-0.30, 0.05, 0.07), a hydroxyl
\* group whose oxygen is flagged for use, and a carbon flagged not to be
\* used with its aliphatic hydrogen.
JaguarAtoms ==
    <<Atom(1, -30, <<2, 3, 4>>, None, FALSE),
      Atom(2, 5, <<1>>, None, TRUE),
      Atom(3, 7, <<1>>, None, TRUE),
      Atom(4, -40, <<1, 5>>, Some(1), FALSE),
      Atom(5, 30, <<4>>, None, FALSE),
      Atom(6, -20, <<7>>, Some(0), FALSE),
      Atom(7, 4, <<6>>, None, TRUE)>>

\* The same molecule as MacroModel writes it: the partial charge of an
\* aliphatic hydrogen is zero and is part of its carbon's charge.
MacroModelAtoms ==
    <<Atom(1, -18, <<2, 3, 4>>, None, FALSE),
      Atom(2, 0, <<1>>, None, TRUE),
      Atom(3, 0, <<1>>, None, TRUE),
      Atom(4, -40, <<1, 5>>, Some(1), FALSE),
      Atom(5, 30, <<4>>, None, FALSE),
      Atom(6, -16, <<7>>, Some(0), FALSE),
      Atom(7, 0, <<6>>, None, TRUE)>>

\* A bond, angle or torsion of a structure of a .mmo file.
Term(kind, sub, v, a1, a2) ==
    [kind |-> kind, sub |-> sub, value |-> v, atm_1 |-> a1, atm_2 |-> a2]

MmoTerms ==
    <<Term("bonds", "OPT", 153, 1, 2), Term("bonds", "C-H", 110, 1, 3),
      Term("angles", "OPT", 1095, 1, 2), Term("torsions", "OPT", 600, 1, 4)>>

\* A structure: props holds r_j_Gas_Phase_Energy (gas), the potential
\* energy r_mmod_Potential_Energy-MM3* (mm3), and hf and zp, each None
\* when the structure has no such property.
Structure(gas, mm3, atoms, terms) ==
    [props |-> [gas |-> gas, mm3 |-> mm3, hf |-> None, zp |-> None],
     atoms |-> atoms, terms |-> terms]

GaussStructure(hf, zp) ==
    [props |-> [gas |-> None, mm3 |-> None, hf |-> Some(hf), zp |-> Some(zp)],
     atoms |-> <<>>, terms |-> <<>>]

\* A symmetric n x n force matrix and an n x n eigenvector matrix.
ForceMatrix(seed, n) ==
    [i \in 1..n |-> [j \in 1..n |->
        seed + i + j + (IF i = j THEN 2 ELSE 0)]]

Eigenvectors(seed, n) ==
    [i \in 1..n |-> [j \in 1..n |->
        IF i = j THEN 1 ELSE IF i < j THEN seed ELSE -1]]

Eigenvalues(seed, n) == [i \in 1..n |-> seed + i]

\* What a file holds: the format it is written in, its structures, its
\* force matrix (hess), eigenvectors (evecs) and eigenvalues (evals).
File(format, structures, hess, evecs, evals) ==
    [format |-> format, structures |-> structures, hess |-> hess,
     evecs |-> evecs, evals |-> evals]

FileNames ==
    {"a.mae", "b.mae", "a.q2mm.mae", "b.q2mm.mae", "a.q2mm.mmo",
     "b.q2mm.mmo", "a.q2mm.log", "b.q2mm.log", "a.log", "a.fchk", "a.in",
     "b.in", "a.out", "b.out"}

Disk(name, n) ==
    CASE name = "a.mae" ->
            File("mae", <<Structure(Some(-100), None, JaguarAtoms, <<>>),
                          Structure(Some(-98), None, JaguarAtoms, <<>>)>>,
                 <<>>, <<>>, <<>>)
      [] name = "b.mae" ->
            File("mae", <<Structure(Some(-90), None, JaguarAtoms, <<>>)>>,
                 <<>>, <<>>, <<>>)
      [] name = "a.q2mm.mae" ->
            File("mae", <<Structure(None, Some(40), MacroModelAtoms, <<>>),
                          Structure(None, Some(25), MacroModelAtoms, <<>>),
                          Structure(None, Some(24), MacroModelAtoms, <<>>)>>,
                 <<>>, <<>>, <<>>)
      [] name = "b.q2mm.mae" ->
            File("mae", <<Structure(None, Some(33), MacroModelAtoms, <<>>)>>,
                 <<>>, <<>>, <<>>)
      [] name = "a.q2mm.mmo" ->
            File("mmo", <<Structure(None, None, <<>>, MmoTerms),
                          Structure(None, None, <<>>, MmoTerms)>>,
                 <<>>, <<>>, <<>>)
      [] name = "b.q2mm.mmo" ->
            File("mmo", <<Structure(None, None, <<>>, MmoTerms)>>,
                 <<>>, <<>>, <<>>)
      [] name = "a.q2mm.log" ->
            File("mmlog", <<>>, ForceMatrix(3, n), <<>>, <<>>)
      [] name = "b.q2mm.log" ->
            File("mmlog", <<>>, ForceMatrix(5, n), <<>>, <<>>)
      [] name = "a.log" ->
            File("gausslog", <<GaussStructure(-200, 3)>>, <<>>,
                 Eigenvectors(2, n), Eigenvalues(4, n))
      [] name = "a.fchk" ->
            File("fchk", <<>>, ForceMatrix(7, n), <<>>, <<>>)
      [] name = "a.in" ->
            File("jagin", <<>>, ForceMatrix(1, n), <<>>, <<>>)
      [] name = "b.in" ->
            File("jagin", <<>>, ForceMatrix(2, n), <<>>, <<>>)
      [] name = "a.out" ->
            File("jagout", <<>>, <<>>, Eigenvectors(2, n), <<>>)
      [] name = "b.out" ->
            File("jagout", <<>>, <<>>, Eigenvectors(3, n), <<>>)

\* What filetypes.Mae of an input .mae file says of the files MacroModel
\* wrote for it: their names, and for each structure of the output whether
\* it is the structure before ("pre") or after ("opt") optimization.
MaeInput(name) ==
    CASE name = "a.mae" ->
            [name_mae |-> "a.q2mm.mae", name_mmo |-> "a.q2mm.mmo",
             name_log |-> "a.q2mm.log",
             index_output_mae |-> <<"pre", "opt", "opt">>,
             index_output_mmo |-> <<"pre", "opt">>]
      [] name = "b.mae" ->
            [name_mae |-> "b.q2mm.mae", name_mmo |-> "b.q2mm.mmo",
             name_log |-> "b.q2mm.log",
             index_output_mae |-> <<"opt">>,
             index_output_mmo |-> <<"opt">>]

\* os.path.splitext(filename)[1] == '.mae'
IsMaeName(name) == name \in {"a.mae", "b.mae", "a.q2mm.mae", "b.q2mm.mae"}

\* ------------------------------------------------- command table, main

\* A token of a group is the sequence of the filenames joined by commas in
\* it (the value of token.split(',')): <<"a.in", "a.out">> is a.in,a.out.

COM_MACROMODEL ==
    {"ja", "jb", "jt", "ma", "mb", "mcs", "mcs2", "mcs3", "me", "meo",
     "mjeig", "mgeig", "mq", "mqh", "mt"}

RECURSIVE Flatten(_)
\* itertools.chain.from_iterable: the concatenation of the sequences of ss.
Flatten(ss) == IF ss = <<>> THEN <<>> ELSE Head(ss) \o Flatten(Tail(ss))

\* The tokens of command com in the order the loops over groups_filenames
\* and group_filenames visit them, each with its grp_num (0-based).
Items(tab, com) ==
    Flatten([g \in 1..Len(tab[com]) |->
                [f \in 1..Len(tab[com][g]) |->
                    [com |-> com, grp_num |-> g - 1, tok |-> tab[com][g][f]]]])

\* All tokens in the order collect_data visits them when coms.iteritems()
\* yields the commands in the order ord.
Work(tab, ord) == Flatten([k \in 1..Len(ord) |-> Items(tab, ord[k])])

\* A variant of sort_commands_by_filename that does not split a token at
\* its commas: only the first filename of a token gets the command.
SortCommandsUnsplit(tab, ord, name) ==
    LET w == Work(tab, ord)
    IN  Flatten([k \in 1..Len(w) |->
            IF w[k].tok[1] = name THEN <<w[k].com>> ELSE <<>>])

\* sort_commands_by_filename: for a filename, the commands of the tokens it
\* is part of, one entry per occurrence, in iteration order.
sort_commands_by_filename(tab, ord, name) ==
    LET w == Work(tab, ord)
    IN  Flatten([k \in 1..Len(w) |->
            LET hit == SelectSeq(w[k].tok, LAMBDA x : x = name)
            IN  [i \in 1..Len(hit) |-> w[k].com]])

\* main: what inps holds for a filename: "Mae" (a filetypes.Mae of the input
\* file), "None", or "missing" when inps has no such key.
Inps(tab, ord, name) ==
    LET cmds == sort_commands_by_filename(tab, ord, name)
    IN  IF cmds = <<>> THEN "missing"
        ELSE IF \E k \in 1..Len(cmds) : cmds[k] \in COM_MACROMODEL
        THEN IF IsMaeName(name) THEN "Mae" ELSE "missing"
        ELSE "None"

\* The exception raised by inps[name].<attribute>, or "none".
InpsError(tab, ord, name) ==
    CASE Inps(tab, ord, name) = "missing" -> "KeyError"
      [] Inps(tab, ord, name) = "None" -> "AttributeError"
      [] OTHER -> "none"

\* ------------------------------------------------------------ collect_data

\* datatypes.Datum(): every attribute is None unless given.
Datum ==
    [val |-> None, wht |-> None, com |-> None, typ |-> None, lbl |-> None,
     src_1 |-> None, src_2 |-> None, idx_1 |-> None, idx_2 |-> None,
     atm_1 |-> None, atm_2 |-> None, atm_3 |-> None, atm_4 |-> None]

\* co.HARTREE_TO_KJMOL, rounded to an integer.
HARTREE_TO_KJMOL == 2625

\* co.HESSIAN_CONVERSION, rounded to an integer.
HESSIAN_CONVERSION == 9375

\* The state of collect_data: outs (for each filename the class of the
\* adapter cached for it, "" when there is none), data, the number of times
\* each file was parsed, and the exception raised ("none" when none was).
NewCollect ==
    [outs |-> [f \in FileNames |-> ""], data |-> <<>>,
     parses |-> [f \in FileNames |-> 0], err |-> "none"]

Fail(st, e) == [st EXCEPT !.err = e]

\* The format each adapter class reads.
FormatOf(cls) ==
    CASE cls = "Mae" -> "mae"
      [] cls = "MacroModel" -> "mmo"
      [] cls = "MacroModelLog" -> "mmlog"
      [] cls = "GaussLog" -> "gausslog"
      [] cls = "GaussFormChk" -> "fchk"
      [] cls = "JaguarIn" -> "jagin"
      [] cls = "JaguarOut" -> "jagout"

\* outs[key] = filetypes.<cls>(path): the file is parsed.
Construct(st, key, cls, n) ==
    IF key \notin FileNames THEN Fail(st, "IOError")
    ELSE IF Disk(key, n).format # FormatOf(cls) THEN Fail(st, "ParseError")
    ELSE [st EXCEPT !.outs[key] = cls, !.parses[key] = @ + 1]

\* An adapter cached for key by a command that reads another format has
\* none of the attributes this command reads.
Hit(st, key, cls) ==
    IF st.outs[key] = cls THEN st ELSE Fail(st, "AttributeError")

\* if key not in outs: outs[key] = filetypes.<cls>(path)
Cached(st, key, cls, n) ==
    IF key \in FileNames /\ st.outs[key] # "" THEN Hit(st, key, cls)
    ELSE Construct(st, key, cls, n)

\* The same with the path built from the undefined name directory: the
\* parse raises NameError.
CachedOrNameError(st, key, cls) ==
    IF key \in FileNames /\ st.outs[key] # "" THEN Hit(st, key, cls)
    ELSE Fail(st, "NameError")

\* filetypes.select_structures: the structures whose entry of index is
\* label, each with its 0-based position.
select_structures(structures, index, label) ==
    LET hit == SelectSeq([i \in 1..Len(structures) |-> i],
                         LAMBDA i : index[i] = label)
    IN  [k \in 1..Len(hit) |->
            [str_num |-> hit[k] - 1, struct |-> structures[hit[k]]]]

\* -------------------------------------------------------- read_reference

\* lbl_to_data_attrs: the exception it raises for the label, or "none".
LabelError(lbl) ==
    LET parts == SplitOn(lbl, "_")
    IN  IF Len(parts) \notin {3, 4} THEN "UnboundLocalError"
        ELSE
        LET atm_nums == IF Len(parts) = 4 THEN SplitOn(parts[4], "-")
                        ELSE <<>>
            idxs == SplitOn(parts[3], "-")
        IN  IF \E i \in 1..Len(atm_nums) : ~IntOk(atm_nums[i])
            THEN "ValueError"
            ELSE IF ~IntOk(idxs[1]) THEN "ValueError"
            ELSE IF Len(idxs) = 2 /\ ~IntOk(idxs[2]) THEN "ValueError"
            ELSE "none"

\* setattr(datum, 'atm_{}'.format(i+1), int(atm_num)) for each atm_num.
SetAtoms(datum, atm_nums) ==
    [datum EXCEPT
        !.atm_1 = IF Len(atm_nums) >= 1 THEN Some(IntOf(atm_nums[1])) ELSE @,
        !.atm_2 = IF Len(atm_nums) >= 2 THEN Some(IntOf(atm_nums[2])) ELSE @,
        !.atm_3 = IF Len(atm_nums) >= 3 THEN Some(IntOf(atm_nums[3])) ELSE @,
        !.atm_4 = IF Len(atm_nums) >= 4 THEN Some(IntOf(atm_nums[4])) ELSE @]

\* The second index of a label: datum.idx_2 == int(idxs[1]) compares and
\* assigns nothing.
SetIdx2(datum, idxs) == datum

\* lbl_to_data_attrs for a label it raises no exception for.
lbl_to_data_attrs(datum, lbl) ==
    LET parts == SplitOn(lbl, "_")
        atm_nums == IF Len(parts) = 4 THEN SplitOn(parts[4], "-") ELSE <<>>
        idxs == SplitOn(parts[3], "-")
        d1 == [datum EXCEPT !.typ = Some(parts[1])]
        d2 == SetAtoms(d1, atm_nums)
        d3 == [d2 EXCEPT !.idx_1 = Some(IntOf(idxs[1]))]
    IN  IF Len(idxs) = 2 THEN SetIdx2(d3, idxs) ELSE d3

\* A variant of ReadLine that reads the lines starting with '-' too.
ReadLineWithRules(st, line) ==
    LET cols == SplitWhitespace(PartitionHead(line, "#"))
    IN  IF Len(cols) # 3 THEN st
        ELSE IF ~FloatOk(cols[2]) \/ ~FloatOk(cols[3])
        THEN [st EXCEPT !.err = "ValueError"]
        ELSE IF LabelError(cols[1]) # "none"
        THEN [st EXCEPT !.err = LabelError(cols[1])]
        ELSE [st EXCEPT !.data = Append(@,
                lbl_to_data_attrs(
                    [Datum EXCEPT !.lbl = Some(cols[1]),
                                  !.wht = Some(FloatOf(cols[2])),
                                  !.val = Some(FloatOf(cols[3]))],
                    cols[1]))]

\* The body of the loop of read_reference over the lines of the file: st
\* is [data, err].
ReadLine(st, line) ==
    IF line # <<>> /\ line[1] = "-" THEN st
    ELSE
    LET cols == SplitWhitespace(PartitionHead(line, "#"))
    IN  IF Len(cols) # 3 THEN st
        ELSE IF ~FloatOk(cols[2]) \/ ~FloatOk(cols[3])
        THEN [st EXCEPT !.err = "ValueError"]
        ELSE IF LabelError(cols[1]) # "none"
        THEN [st EXCEPT !.err = LabelError(cols[1])]
        ELSE [st EXCEPT !.data = Append(@,
                lbl_to_data_attrs(
                    [Datum EXCEPT !.lbl = Some(cols[1]),
                                  !.wht = Some(FloatOf(cols[2])),
                                  !.val = Some(FloatOf(cols[3]))],
                    cols[1]))]

RECURSIVE ReadLines(_, _)
ReadLines(st, lines) ==
    IF lines = <<>> \/ st.err # "none" THEN st
    ELSE ReadLines(ReadLine(st, Head(lines)), Tail(lines))

\* read_reference(filename) for a file with these lines: [data, err].
read_reference(lines) == ReadLines([data |-> <<>>, err |-> "none"], lines)

\* ------------------------------------------------- reference files
\* Lines of reference files, character by character; the comment above
\* each is the line as it reads in the file.
RefLines ==
    <<
      \* 1: a rule
      <<"-", "-", "-", "-", "-", "\n">>,
      \* 2: a comment
      <<"#", " ", "b", "o", "n", "d", "s", "\n">>,
      \* 3: an empty line
      <<"\n">>,
      \* 4: b_1_3-5 1.0 1.534
      <<"b", "_", "1", "_", "3", "-", "5", " ", "1", ".", "0", " ",
        "1", ".", "5", "3", "4", "\n">>,
      \* 5: q_1_1_6 1 -0.25 # charge
      <<"q", "_", "1", "_", "1", "_", "6", " ", "1", " ", "-", "0",
        ".", "2", "5", " ", "#", " ", "c", "h", "a", "r", "g", "e",
        "\n">>,
      \* 6: a_1_2_1-2-3 2.0 109.5
      <<"a", "_", "1", "_", "2", "_", "1", "-", "2", "-", "3", " ",
        "2", ".", "0", " ", "1", "0", "9", ".", "5", "\n">>,
      \* 7: e_1_2 1 0
      <<"e", "_", "1", "_", "2", " ", "1", " ", "0", "\n">>,
      \* 8: b_1_3-5 1.0
      <<"b", "_", "1", "_", "3", "-", "5", " ", "1", ".", "0", "\n">>,
      \* 9: b_1 1.0 1.5
      <<"b", "_", "1", " ", "1", ".", "0", " ", "1", ".", "5", "\n">>,
      \* 10: b_1_x 1.0 1.5
      <<"b", "_", "1", "_", "x", " ", "1", ".", "0", " ", "1", ".",
        "5", "\n">>,
      \* 11: e_1_2 1.0 n/a
      <<"e", "_", "1", "_", "2", " ", "1", ".", "0", " ", "n", "/",
        "a", "\n">>,
      \* 12: -b_1 1.0 1.5
      <<"-", "b", "_", "1", " ", "1", ".", "0", " ", "1", ".", "5",
        "\n">>
    >>

RefLineSet == {RefLines[i] : i \in DOMAIN RefLines}

\* The reference file of the runs that do not vary it.
DefaultRef == <<RefLines[1], RefLines[4], RefLines[5]>>

\* ------------------------------------------------------ numpy and Hessian

\* np.diag of a vector: the matrix with the vector on its diagonal.
NpDiagOfVector(v) ==
    [i \in 1..Len(v) |-> [j \in 1..Len(v) |-> IF i = j THEN v[i] ELSE 0]]

\* np.diag of a matrix: the vector of its diagonal.
NpDiagOfMatrix(m) == [i \in 1..Len(m) |-> m[i][i]]

RECURSIVE TrilIndices(_)
\* np.tril_indices_from of an n x n matrix: the 0-based (row, column) pairs
\* of its lower triangle, row by row.
TrilIndices(n) ==
    IF n = 0 THEN <<>>
    ELSE TrilIndices(n - 1) \o [j \in 1..n |-> <<n - 1, j - 1>>]

RECURSIVE SumTo(_, _)
SumTo(f, k) == IF k = 0 THEN 0 ELSE f[k] + SumTo(f, k - 1)

MatMul(a, b) ==
    [i \in 1..Len(a) |-> [j \in 1..Len(a) |->
        SumTo([k \in 1..Len(a) |-> a[i][k] * b[k][j]], Len(a))]]

Transpose(a) == [i \in 1..Len(a) |-> [j \in 1..Len(a) |-> a[j][i]]]

\* The weight of coordinate i in mass weighting.
MassFactor(i) == i

\* datatypes.Hessian.mass_weight_hessian
mass_weight_hessian(h) ==
    [i \in 1..Len(h) |-> [j \in 1..Len(h) |->
        h[i][j] * MassFactor(i) * MassFactor(j)]]

\* datatypes.Hessian.mass_weight_eigenvectors
mass_weight_eigenvectors(e) ==
    [i \in 1..Len(e) |-> [j \in 1..Len(e) |-> e[i][j] * MassFactor(j)]]

\* datatypes.Hessian.diagonalize: evecs * hess * evecs^T
diagonalize(h, e) == MatMul(MatMul(e, h), Transpose(e))

\* The Datum list built from the lower triangle of matrix m.
EigData(m, com, src_1, src_2) ==
    LET idx == TrilIndices(Len(m))
    IN  [k \in 1..Len(idx) |->
            [Datum EXCEPT !.val = Some(m[idx[k][1] + 1][idx[k][2] + 1]),
                          !.com = Some(com), !.typ = Some(Chars("eig")),
                          !.src_1 = Some(src_1), !.src_2 = src_2,
                          !.idx_1 = Some(idx[k][1] + 1),
                          !.idx_2 = Some(idx[k][2] + 1)]]

\* ------------------------------------------- collect_data, token by token
\* Each operator below is the body of the innermost loop over filenames of
\* one if statement of collect_data: st is the state before the token it,
\* the value the state after it.  tab and ord give inps, n the files.

\* The filename of a token of a command that does not split its tokens; a
\* token of several names is the name of no file.
FileOf(it) == IF Len(it.tok) = 1 THEN it.tok[1] ELSE "?"

\* JAGUAR ENERGIES
JaguarEnergies(st, it, n) ==
    LET filename == FileOf(it)
        typ == IF it.com = "je" THEN "e" ELSE "eo"
        st1 == Cached(st, filename, "Mae", n)
    IN  IF st1.err # "none" THEN st1
        ELSE LET structs == Disk(filename, n).structures
             IN  IF \E i \in 1..Len(structs) : IsNone(structs[i].props.gas)
                 THEN Fail(st1, "KeyError")
                 ELSE [st1 EXCEPT !.data = @ \o [i \in 1..Len(structs) |->
                        [Datum EXCEPT
                            !.val = Some(Val(structs[i].props.gas)
                                         * HARTREE_TO_KJMOL),
                            !.com = Some(it.com), !.typ = Some(Chars(typ)),
                            !.src_1 = Some(filename),
                            !.idx_1 = Some(it.grp_num + 1),
                            !.idx_2 = Some(i)]]]

\* if not 'b_q_use_charge' in atom.props or atom.props['b_q_use_charge']
UseCharge(atom) ==
    IsNone(atom.b_q_use_charge) \/ Val(atom.b_q_use_charge) # 0

RECURSIVE BondedHydrogenCharge(_, _, _)
\* The sum of the partial charges of the atoms bonded to the atom (the
\* first k entries of its bonded_atom_indices) that are aliphatic hydrogens.
BondedHydrogenCharge(atoms, bonded, k) ==
    IF k = 0 THEN 0
    ELSE BondedHydrogenCharge(atoms, bonded, k - 1)
         + (IF atoms[bonded[k]].aliph
            THEN atoms[bonded[k]].partial_charge ELSE 0)

\* The charge records of the atoms of one structure for jq and jqh.
JaguarChargeData(com, filename, i, atoms) ==
    LET used == SelectSeq(atoms, LAMBDA a :
                    UseCharge(a) /\ (com = "jq" \/ ~a.aliph))
    IN  [k \in 1..Len(used) |->
            [Datum EXCEPT
                !.val = Some(used[k].partial_charge
                             + (IF com = "jqh"
                                THEN BondedHydrogenCharge(atoms,
                                        used[k].bonded_atom_indices,
                                        Len(used[k].bonded_atom_indices))
                                ELSE 0)),
                !.com = Some(com), !.typ = Some(Chars("q")),
                !.src_1 = Some(filename), !.idx_1 = Some(i),
                !.atm_1 = Some(used[k].index)]]

\* JAGUAR CHARGES
JaguarCharges(st, it, n) ==
    LET filename == FileOf(it)
        st1 == CachedOrNameError(st, filename, "Mae")
    IN  IF st1.err # "none" THEN st1
        ELSE LET structs == Disk(filename, n).structures
             IN  [st1 EXCEPT !.data = @ \o Flatten(
                    [i \in 1..Len(structs) |->
                        JaguarChargeData(it.com, filename, i,
                                         structs[i].atoms)])]

\* The charge records of the atoms of one structure for mq and mqh.
MacroModelChargeData(com, filename, str_num, atoms) ==
    LET used == SelectSeq(atoms, LAMBDA a :
                    UseCharge(a) /\ (com = "mq" \/ ~a.aliph))
    IN  [k \in 1..Len(used) |->
            [Datum EXCEPT
                !.val = Some(used[k].partial_charge),
                !.com = Some(com), !.typ = Some(Chars("q")),
                !.src_1 = Some(filename), !.idx_1 = Some(str_num + 1),
                !.atm_1 = Some(used[k].index)]]

\* MACROMODEL CHARGES
MacroModelCharges(st, it, tab, ord, n) ==
    LET filename == FileOf(it)
    IN  IF InpsError(tab, ord, filename) # "none"
        THEN Fail(st, InpsError(tab, ord, filename))
        ELSE LET mae == MaeInput(filename).name_mae
                 st1 == Cached(st, mae, "Mae", n)
             IN  IF st1.err # "none" THEN st1
                 ELSE LET sel == select_structures(
                                    Disk(mae, n).structures,
                                    MaeInput(filename).index_output_mae,
                                    "pre")
                      IN  [st1 EXCEPT !.data = @ \o Flatten(
                            [k \in 1..Len(sel) |->
                                MacroModelChargeData(it.com, filename,
                                    sel[k].str_num, sel[k].struct.atoms)])]

\* MACROMODEL ENERGIES
MacroModelEnergies(st, it, tab, ord, n) ==
    LET filename == FileOf(it)
        typ == IF it.com = "me" THEN "e" ELSE "eo"
        ind == IF it.com = "me" THEN "pre" ELSE "opt"
    IN  IF InpsError(tab, ord, filename) # "none"
        THEN Fail(st, InpsError(tab, ord, filename))
        ELSE LET mae == MaeInput(filename).name_mae
                 st1 == Cached(st, mae, "Mae", n)
             IN  IF st1.err # "none" THEN st1
                 ELSE LET sel == select_structures(
                                    Disk(mae, n).structures,
                                    MaeInput(filename).index_output_mae,
                                    ind)
                      IN  IF \E k \in 1..Len(sel) :
                                IsNone(sel[k].struct.props.mm3)
                          THEN Fail(st1, "KeyError")
                          ELSE [st1 EXCEPT !.data = @ \o
                            [k \in 1..Len(sel) |->
                                [Datum EXCEPT
                                    !.val = sel[k].struct.props.mm3,
                                    !.com = Some(it.com),
                                    !.typ = Some(Chars(typ)),
                                    !.src_1 = Some(mae),
                                    !.idx_1 = Some(it.grp_num + 1),
                                    !.idx_2 = Some(sel[k].str_num + 1)]]]

\* filetypes' select_stuff: the terms of kind typ of a structure whose
\* substructure name is in com_match, as Datums.
select_stuff(struct, typ, com, com_match, src_1, idx_1) ==
    LET hit == SelectSeq(struct.terms, LAMBDA t :
                    t.kind = typ /\ t.sub \in com_match)
    IN  [k \in 1..Len(hit) |->
            [Datum EXCEPT
                !.val = Some(hit[k].value), !.com = Some(com),
                !.typ = Some(Chars(typ)), !.src_1 = Some(src_1),
                !.idx_1 = Some(idx_1), !.atm_1 = Some(hit[k].atm_1),
                !.atm_2 = Some(hit[k].atm_2)]]

\* SCHRODINGER STRUCTURES
SchrodingerStructures(st, it, tab, ord, n) ==
    LET filename == FileOf(it)
        index == IF it.com \in {"ja", "jb", "jt"} THEN "pre" ELSE "opt"
        typ == CASE it.com \in {"ja", "ma"} -> "angles"
                 [] it.com \in {"jb", "mb"} -> "bonds"
                 [] it.com \in {"jt", "mt"} -> "torsions"
    IN  IF InpsError(tab, ord, filename) # "none"
        THEN Fail(st, InpsError(tab, ord, filename))
        ELSE LET mmo == MaeInput(filename).name_mmo
                 st1 == Cached(st, mmo, "MacroModel", n)
             IN  IF st1.err # "none" THEN st1
                 ELSE LET sel == select_structures(
                                    Disk(mmo, n).structures,
                                    MaeInput(filename).index_output_mmo,
                                    index)
                      IN  [st1 EXCEPT !.data = @ \o Flatten(
                            [k \in 1..Len(sel) |->
                                select_stuff(sel[k].struct, typ, it.com,
                                             {"OPT"}, mmo,
                                             sel[k].str_num + 1)])]

\* GAUSSIAN ENERGIES: the Datum is appended to the undefined name data_list.
GaussianEnergies(st, it, n) ==
    LET name_log == FileOf(it)
        st1 == CachedOrNameError(st, name_log, "GaussLog")
    IN  IF st1.err # "none" THEN st1
        ELSE Fail(st1, "NameError")

\* GAUSSIAN EIGENMATRIX
GaussianEigenmatrix(st, it, n) ==
    LET name_log == FileOf(it)
        st1 == CachedOrNameError(st, name_log, "GaussLog")
    IN  IF st1.err # "none" THEN st1
        ELSE LET evals == Disk(name_log, n).evals
                 evals_matrix == NpDiagOfVector(
                    [i \in 1..Len(evals) |-> evals[i] * HESSIAN_CONVERSION])
             IN  [st1 EXCEPT !.data = @ \o
                    EigData(evals_matrix, it.com, name_log, None)]

\* geigz2 ("kept for legacy")
GaussianEigenmatrix2(st, it, n) ==
    IF Len(it.tok) # 2 THEN Fail(st, "ValueError")
    ELSE
    LET name_log == it.tok[1]
        name_fchk == it.tok[2]
        st1 == CachedOrNameError(st, name_log, "GaussLog")
        st2 == IF st1.err # "none" THEN st1
               ELSE CachedOrNameError(st1, name_fchk, "GaussFormChk")
    IN  IF st2.err # "none" THEN st2
        ELSE LET hess == diagonalize(
                            mass_weight_hessian(Disk(name_fchk, n).hess),
                            Disk(name_log, n).evecs)
                 diagonal_matrix == NpDiagOfVector(NpDiagOfMatrix(hess))
             IN  [st2 EXCEPT !.data = @ \o
                    EigData(diagonal_matrix, it.com, name_log,
                            Some(name_fchk))]

\* MacroModel eigenmatrix for Gaussian QM data.
MacroModelGaussianEigenmatrix(st, it, tab, ord, n) ==
    IF Len(it.tok) # 2 THEN Fail(st, "ValueError")
    ELSE
    LET name_mae == it.tok[1]
        name_gau_log == it.tok[2]
    IN  IF InpsError(tab, ord, name_mae) # "none"
        THEN Fail(st, InpsError(tab, ord, name_mae))
        ELSE
        LET name_macro_log == MaeInput(name_mae).name_log
            st1 == Cached(st, name_macro_log, "MacroModelLog", n)
            st2 == IF st1.err # "none" THEN st1
                   ELSE CachedOrNameError(st1, name_gau_log, "GaussLog")
        IN  IF st2.err # "none" THEN st2
            ELSE LET hess == diagonalize(Disk(name_macro_log, n).hess,
                                         Disk(name_gau_log, n).evecs)
                 IN  [st2 EXCEPT !.data = @ \o
                        EigData(hess, it.com, name_macro_log,
                                Some(name_gau_log))]

\* Schrodinger eigenmatrix, mjeig: the .log of the .mae is parsed unless
\* the name of the .mae is a key of outs, and read from outs by its own
\* name.
MacroModelLogOf(st, name_other, tab, ord, n) ==
    IF InpsError(tab, ord, name_other) # "none"
    THEN Fail(st, InpsError(tab, ord, name_other))
    ELSE LET name_log == MaeInput(name_other).name_log
         IN  IF name_other \notin FileNames \/ st.outs[name_other] = ""
             THEN Construct(st, name_log, "MacroModelLog", n)
             ELSE IF st.outs[name_log] = "" THEN Fail(st, "KeyError")
             ELSE Hit(st, name_log, "MacroModelLog")

\* Schrodinger eigenmatrix (jeigz and mjeig).
SchrodingerEigenmatrix(st, it, tab, ord, n) ==
    IF Len(it.tok) # 2 THEN Fail(st, "ValueError")
    ELSE
    LET name_other == it.tok[1]
        name_out == it.tok[2]
        st1 == IF it.com = "mjeig"
               THEN MacroModelLogOf(st, name_other, tab, ord, n)
               ELSE Cached(st, name_other, "JaguarIn", n)
        st2 == IF st1.err # "none" THEN st1
               ELSE Cached(st1, name_out, "JaguarOut", n)
    IN  IF st2.err # "none" THEN st2
        ELSE LET other == IF it.com = "mjeig"
                          THEN MaeInput(name_other).name_log
                          ELSE name_other
                 h0 == Disk(other, n).hess
                 h1 == IF it.com = "jeigz" THEN mass_weight_hessian(h0)
                       ELSE h0
                 hess == diagonalize(h1, mass_weight_eigenvectors(
                                            Disk(name_out, n).evecs))
                 diagonal_matrix ==
                    IF it.com = "jeigz"
                    THEN NpDiagOfVector(NpDiagOfMatrix(hess))
                    ELSE hess
             IN  [st2 EXCEPT !.data = @ \o
                    EigData(diagonal_matrix, it.com, name_other,
                            Some(name_out))]

\* ------------------------------------------------------- command tables

\* A variant of Reference that keeps the records read before the line
\* read_reference fails on, and goes on.
ReferenceKeepsPartial(st, it, lines) ==
    [st EXCEPT !.data = @ \o read_reference(lines).data]

\* REFERENCE FILE
Reference(st, it, lines) ==
    LET read == read_reference(lines)
    IN  IF read.err # "none" THEN Fail(st, read.err)
        ELSE [st EXCEPT !.data = @ \o read.data]

\* A list of one group of one token: of one file, of two files joined by a
\* comma.
One(f) == <<<<<<f>>>>>>

Pair(f, g) == <<<<<<f, g>>>>>>

\* The tokens of two such lists in one group (a \o b puts them in a group
\* each).
Together(a, b) == <<a[1] \o b[1]>>

\* The commands of the tables, and for each the lists of groups it is given.
Commands ==
    {"r", "je", "jeo", "jq", "jqh", "mq", "mqh", "me", "meo", "jb", "ma",
     "mb", "ge", "geigz", "geigz2", "mgeig", "jeigz", "mjeig"}

GroupChoices(com) ==
    CASE com = "r" ->
            {One("ref.txt"), Together(One("ref.txt"), One("ref.txt"))}
      [] com \in {"je", "jeo", "jq", "jqh"} ->
            {One("a.mae"), One("a.mae") \o One("b.mae")}
      [] com \in {"mq", "mqh", "me", "meo", "jb", "ma", "mb"} ->
            {One("a.mae"), Together(One("a.mae"), One("b.mae"))}
      [] com \in {"ge", "geigz"} -> {One("a.log")}
      [] com = "geigz2" -> {Pair("a.log", "a.fchk")}
      [] com = "mgeig" -> {Pair("a.mae", "a.log")}
      [] com = "jeigz" ->
            {Pair("a.in", "a.out"),
             Together(Pair("a.in", "a.out"), Pair("b.in", "b.out")),
             Together(Pair("a.in", "a.out"), Pair("a.in", "b.out")),
             One("a.in")}
      [] com = "mjeig" ->
            {Pair("a.mae", "a.out"),
             Together(Pair("a.mae", "a.out"), Pair("a.mae", "b.out")),
             Together(Pair("a.mae", "a.out"), Pair("b.mae", "b.out"))}

\* The command tables over the commands cs.
Tables(cs) ==
    {t \in [cs -> UNION {GroupChoices(c) : c \in Commands}] :
        \A c \in cs : t[c] \in GroupChoices(c)}

\* The orders in which iteritems() can yield the commands cs.
Orders(cs) ==
    {o \in [1..Cardinality(cs) -> cs] :
        \A i, j \in 1..Cardinality(cs) : o[i] = o[j] => i = j}

\* One pass of the body of the loops of collect_data for the token it.
TokenStep(st, it, tab, ord, n, lines) ==
    CASE it.com = "r" -> Reference(st, it, lines)
      [] it.com \in {"je", "jeo"} -> JaguarEnergies(st, it, n)
      [] it.com \in {"jq", "jqh"} -> JaguarCharges(st, it, n)
      [] it.com \in {"mq", "mqh"} -> MacroModelCharges(st, it, tab, ord, n)
      [] it.com \in {"me", "meo"} -> MacroModelEnergies(st, it, tab, ord, n)
      [] it.com \in {"ja", "jb", "jt", "ma", "mb", "mt"} ->
            SchrodingerStructures(st, it, tab, ord, n)
      [] it.com \in {"ge", "geo"} -> GaussianEnergies(st, it, n)
      [] it.com = "geigz" -> GaussianEigenmatrix(st, it, n)
      [] it.com = "geigz2" -> GaussianEigenmatrix2(st, it, n)
      [] it.com = "mgeig" ->
            MacroModelGaussianEigenmatrix(st, it, tab, ord, n)
      [] it.com \in {"jeigz", "mjeig"} ->
            SchrodingerEigenmatrix(st, it, tab, ord, n)

RECURSIVE RunFrom(_, _, _, _, _, _)
\* collect_data from the state st on, over the tokens w: the state it
\* ends in.
RunFrom(st, w, tab, ord, n, lines) ==
    IF w = <<>> \/ st.err # "none" THEN st
    ELSE RunFrom(TokenStep(st, Head(w), tab, ord, n, lines), Tail(w),
                 tab, ord, n, lines)

\* collect_data(coms, inps) when iteritems() yields the commands in the
\* order ord.
collect_data(tab, ord, n, lines) ==
    RunFrom(NewCollect, Work(tab, ord), tab, ord, n, lines)

\* ------------------------------------------- collect_data, step by step

\* The token the loops of collect_data are at.
Current == Work(coms, order)[cpos]

Collecting ==
    /\ returned = None
    /\ cst.err = "none"
    /\ cpos <= Len(Work(coms, order))

\* The token is one of a command of fam.
AtToken(fam) == Collecting /\ Current.com \in fam

\* On to the next token.
NextToken ==
    /\ cpos' = cpos + 1
    /\ UNCHANGED <<loopVars, coms, order, matN, ref, returned>>

ReferenceFile ==
    /\ AtToken({"r"})
    /\ cst' = Reference(cst, Current, ref)
    /\ NextToken

JaguarEnergy ==
    /\ AtToken({"je", "jeo"})
    /\ cst' = JaguarEnergies(cst, Current, matN)
    /\ NextToken

JaguarCharge ==
    /\ AtToken({"jq", "jqh"})
    /\ cst' = JaguarCharges(cst, Current, matN)
    /\ NextToken

MacroModelCharge ==
    /\ AtToken({"mq", "mqh"})
    /\ cst' = MacroModelCharges(cst, Current, coms, order, matN)
    /\ NextToken

MacroModelEnergy ==
    /\ AtToken({"me", "meo"})
    /\ cst' = MacroModelEnergies(cst, Current, coms, order, matN)
    /\ NextToken

SchrodingerStructure ==
    /\ AtToken({"ja", "jb", "jt", "ma", "mb", "mt"})
    /\ cst' = SchrodingerStructures(cst, Current, coms, order, matN)
    /\ NextToken

GaussianEnergy ==
    /\ AtToken({"ge", "geo"})
    /\ cst' = GaussianEnergies(cst, Current, matN)
    /\ NextToken

GaussianEigen ==
    /\ AtToken({"geigz"})
    /\ cst' = GaussianEigenmatrix(cst, Current, matN)
    /\ NextToken

GaussianEigen2 ==
    /\ AtToken({"geigz2"})
    /\ cst' = GaussianEigenmatrix2(cst, Current, matN)
    /\ NextToken

MacroModelGaussianEigen ==
    /\ AtToken({"mgeig"})
    /\ cst' = MacroModelGaussianEigenmatrix(cst, Current, coms, order, matN)
    /\ NextToken

SchrodingerEigen ==
    /\ AtToken({"jeigz", "mjeig"})
    /\ cst' = SchrodingerEigenmatrix(cst, Current, coms, order, matN)
    /\ NextToken

\* return data
CollectReturn ==
    /\ returned = None
    /\ cst.err = "none"
    /\ cpos > Len(Work(coms, order))
    /\ returned' = Some(cst.data)
    /\ UNCHANGED <<loopVars, coms, order, cpos, cst, matN, ref>>

\* calculate run on its own: no Loop object exists.
NoLoop ==
    /\ stack = <<>>
    /\ status = "running"
    /\ nextOid = 1
    /\ last = NoCall
    /\ created = 0

\* collect_data is called with any command table of at most MaxComs
\* commands, iterated in any order, the matrices on disk of any size up to
\* MaxN.
InitCollect ==
    /\ NoLoop
    /\ \E cs \in {c \in SUBSET Commands : Cardinality(c) <= MaxComs} :
        /\ coms \in Tables(cs)
        /\ order \in Orders(cs)
    /\ cpos = 1
    /\ cst = NewCollect
    /\ matN \in 1..MaxN
    /\ ref = DefaultRef
    /\ returned = None

NextCollect ==
    \/ ReferenceFile
    \/ JaguarEnergy
    \/ JaguarCharge
    \/ MacroModelCharge
    \/ MacroModelEnergy
    \/ SchrodingerStructure
    \/ GaussianEnergy
    \/ GaussianEigen
    \/ GaussianEigen2
    \/ MacroModelGaussianEigen
    \/ SchrodingerEigen
    \/ CollectReturn

SpecCollect == InitCollect /\ [][NextCollect]_vars

\* collect_data is called for the one reference file ref.txt, of any
\* lines.
InitRef ==
    /\ NoLoop
    /\ coms = [c \in {"r"} |-> One("ref.txt")]
    /\ order = <<"r">>
    /\ cpos = 1
    /\ cst = NewCollect
    /\ matN = 1
    /\ ref \in SeqsUpTo(RefLineSet, MaxRefLines)
    /\ returned = None

NextRef ==
    \/ ReferenceFile
    \/ CollectReturn

SpecRef == InitRef /\ [][NextRef]_vars

\* ------------------------------------------------------------ the claims

\* A child Loop at the test of its while statement after a complete cycle.
AfterCycle ==
    /\ Running
    /\ Len(stack) > 1
    /\ Top.at = "while"
    /\ Top.current_cycle_num >= 1

\* The step is opt_loop returning Top's score to the enclosing level.
ReturnsScore ==
    /\ Len(stack') = Len(stack) - 1
    /\ stack'[Len(stack')].score = Top.score
    /\ stack'[Len(stack')].loop = Some(Top)

\* The step is opt_loop starting another cycle.
StartsCycle ==
    /\ Len(stack') = Len(stack)
    /\ stack'[Len(stack')].current_cycle_num = Top.current_cycle_num + 1
    /\ stack'[Len(stack')].at = "body"

\* (prev - score) / prev <= t for a positive prev, t in hundredths.
RelativeChangeAtMost(prev, score, t) == (prev - score) * 100 <= t * prev

\* C1: a child Loop that started with a score stops after the first cycle
\* whose relative change (s(k-1) - s(k)) / s(k-1) is at most the threshold
\* and returns s(k); after a cycle whose relative change is larger it runs
\* another cycle.
C1_StopsAtFirstSmallChange ==
    [][AfterCycle =>
        IF RelativeChangeAtMost(Val(Top.score_prev), Val(Top.score),
                                Top.convergence)
        THEN ReturnsScore
        ELSE StartsCycle]_vars

\* C1: scores 10.00, 9.00, 8.91 with threshold 0.02: opt_loop has returned
\* 8.91 after its second cycle.
C1_Witness ==
    /\ Len(stack) = 1
    /\ stack[1].loop # Unbound
    /\ Val(stack[1].loop).convergence = 2
    /\ Val(stack[1].loop).current_cycle_num = 2
    /\ Val(stack[1].loop).score_prev = Some(900)
    /\ Val(stack[1].loop).score = Some(891)
    /\ stack[1].score = Some(891)

IsLoopLine(l) == l # <<>> /\ l[1] = "LOOP"

IsEndLine(l) == l # <<>> /\ l[1] = "END"

\* Index of the END that closes the LOOP nesting entered before line p, with
\* d levels open; 0 when there is none.
RECURSIVE MatchFrom(_, _, _)
MatchFrom(lines, p, d) ==
    IF p > Len(lines) THEN 0
    ELSE IF IsEndLine(lines[p])
         THEN IF d = 1 THEN p ELSE MatchFrom(lines, p + 1, d - 1)
    ELSE IF IsLoopLine(lines[p]) THEN MatchFrom(lines, p + 1, d + 1)
    ELSE MatchFrom(lines, p + 1, d)

\* The END matching the LOOP of line p, counting nested LOOP/END pairs.
MatchingEnd(lines, p) == MatchFrom(lines, p + 1, 1)

\* Every LOOP has a threshold and a matching END, and no line is empty.
WellFormed(lines) ==
    \A p \in 1..Len(lines) :
        /\ lines[p] # <<>>
        /\ IsLoopLine(lines[p]) =>
            /\ Len(lines[p]) = 2
            /\ lines[p][2] \in FloatTokens
            /\ MatchingEnd(lines, p) # 0

\* C2: in a well-formed script the body handed to a child Loop is the lines
\* between its LOOP and the END matching that LOOP (nested LOOP/END pairs
\* counted), and no LOOP runs out of lines looking for its END.
C2_BodyEndsAtMatchingEnd ==
    WellFormed(stack[1].lines) =>
        /\ status # "StopIteration"
        /\ \A k \in 2..Len(stack) :
            LET par == stack[k - 1]
                body == Val(stack[k].loop_lines)
                endAt == par.pos - 1
                loopAt == endAt - Len(body) - 1
            IN  /\ IsLoopLine(par.lines[loopAt])
                /\ endAt = MatchingEnd(par.lines, loopAt)
                /\ body = SubSeq(par.lines, loopAt + 1, endAt - 1)

\* C3: a nested Loop starts with the force field of its enclosing loop, and
\* when its opt_loop has returned the enclosing loop holds the force field
\* the child ended with.
C3_SharedForceField ==
    /\ \A k \in 2..Len(stack) :
        stack[k].current_cycle_num = 0 => stack[k].ff = stack[k - 1].ff
    /\ (/\ Running
        /\ Top.at = "body"
        /\ Top.loop # Unbound
        /\ Top.pos > 1
        /\ IsEndLine(Top.lines[Top.pos - 1]))
       => Top.ff = Val(Top.loop).ff

\* C6: a child Loop that starts without a score completes its first cycle
\* without an error: once that cycle has run every line of the script and
\* produced a score, the program is still running.
C6_FirstCycleCompletes ==
    (/\ Len(stack) > 1
     /\ Top.current_cycle_num = 1
     /\ IsNone(Top.score_prev)
     /\ ~IsNone(Top.score)
     /\ Top.at = "body"
     /\ Top.pos > Len(Top.lines))
    => status = "running"

\* The last cycle produced a score greater than the previous one.
ScoreIncreased == Val(Top.score) > Val(Top.score_prev)

\* C7, as stated: after a cycle that produced a greater score opt_loop runs
\* another cycle.
C7_IncreaseForcesCycle ==
    [][(AfterCycle /\ ScoreIncreased) => StartsCycle]_vars

\* C7, amended: after a cycle that produced a score greater than the
\* previous one, opt_loop with a threshold of 0 or more returns that score
\* without another cycle.
C7_IncreaseStops ==
    [][(AfterCycle /\ ScoreIncreased /\ Top.convergence >= 0)
        => ReturnsScore]_vars

\* C7: opt_loop has returned a score greater than the one before it.
C7_Witness ==
    /\ Len(stack) = 1
    /\ stack[1].loop # Unbound
    /\ Val(stack[1].loop).convergence >= 0
    /\ Val(stack[1].loop).current_cycle_num >= 1
    /\ Val(Val(stack[1].loop).score) > Val(Val(stack[1].loop).score_prev)
    /\ stack[1].score = Val(stack[1].loop).score

\* collect_data has ended: it has returned or an exception has left it.
Ended == returned # None \/ cst.err # "none"

\* C4: within one run of collect_data every output file is parsed (its
\* adapter constructed) at most once, however many commands, groups and
\* repeated tokens name it.
C4_ParsedAtMostOnce == \A f \in FileNames : cst.parses[f] <= 1

\* The atom numbers atm_1, atm_2, ... of a record.
AtomNumbers(d) == <<d.atm_1, d.atm_2, d.atm_3, d.atm_4>>

\* C5: for a label of 3 or 4 parts, the record read from its line has typ
\* the first part, idx_1 the first index of the third part, idx_2 the
\* second index when the third part holds two, and, for 4 parts, atm_1,
\* atm_2, ... the atom numbers of the last part.
C5_LabelAttributes ==
    \A i \in 1..Len(cst.data) :
        LET d == cst.data[i]
            parts == SplitOn(Val(d.lbl), "_")
            idxs == SplitOn(parts[3], "-")
            atms == IF Len(parts) = 4 THEN SplitOn(parts[4], "-") ELSE <<>>
        IN  Len(parts) \in {3, 4} =>
                /\ d.typ = Some(parts[1])
                /\ d.idx_1 = Some(IntOf(idxs[1]))
                /\ Len(idxs) = 2 => d.idx_2 = Some(IntOf(idxs[2]))
                /\ \A k \in 1..Len(atms) :
                        AtomNumbers(d)[k] = Some(IntOf(atms[k]))

\* The number of times d is in the list data.
Count(data, d) == Cardinality({i \in 1..Len(data) : data[i] = d})

\* Two lists hold the same records, whatever their order.
SameRecords(a, b) ==
    /\ Len(a) = Len(b)
    /\ \A i \in 1..Len(a) : Count(a, a[i]) = Count(b, a[i])

\* C8: the outcome of collect_data does not depend on the order in which
\* the commands of the table are processed: in any other order it fails if
\* it has failed and succeeds with the same records if it has succeeded.
C8_OrderIndependent ==
    Ended =>
        \A o \in Orders(DOMAIN coms) :
            LET other == collect_data(coms, o, matN, ref)
            IN  /\ (cst.err = "none") <=> (other.err = "none")
                /\ cst.err = "none" => SameRecords(cst.data, other.data)


\* The records the pass through the loop body that is this step appends.
Appended == SubSeq(cst'.data, Len(cst.data) + 1, Len(cst'.data))

\* An atom is usable unless its b_q_use_charge is there and is 0.
Usable(a) == a.b_q_use_charge = None \/ a.b_q_use_charge # Some(0)

RECURSIVE SumCharges(_, _)
\* The sum of the partial charges of the atoms with the indices js.
SumCharges(atoms, js) ==
    IF js = {} THEN 0
    ELSE LET j == CHOOSE x \in js : TRUE
         IN  atoms[j].partial_charge + SumCharges(atoms, js \ {j})

\* The charge of an atom with those of its aliphatic hydrogens folded in.
FoldedCharge(atoms, a) ==
    a.partial_charge
    + SumCharges(atoms, {j \in 1..Len(atoms) :
        /\ atoms[j].aliph
        /\ \E k \in 1..Len(a.bonded_atom_indices) :
                a.bonded_atom_indices[k] = j})

\* The structures a charge command reads for a file, each with its
\* number: those of the file for jq and jqh, those MacroModel wrote for it
\* before optimization for mq and mqh.
ChargeStructures(com, filename) ==
    IF com \in {"jq", "jqh"}
    THEN [i \in 1..Len(Disk(filename, matN).structures) |->
            [num |-> i, atoms |-> Disk(filename, matN).structures[i].atoms]]
    ELSE LET out == Disk(MaeInput(filename).name_mae, matN).structures
             pre == SelectSeq([i \in 1..Len(out) |-> i], LAMBDA i :
                        MaeInput(filename).index_output_mae[i] = "pre")
         IN  [k \in 1..Len(pre) |->
                [num |-> pre[k], atoms |-> out[pre[k]].atoms]]

\* C9: a pass of a charge command over a file appends, for each structure,
\* one record per usable atom with the atom's own charge (jq, mq), or one
\* record per usable atom that is no aliphatic hydrogen with the charges of
\* its aliphatic hydrogens added to its own (jqh, mqh), and nothing else.
C9_ChargeRecords ==
    [][(Collecting /\ Current.com \in {"jq", "jqh", "mq", "mqh"}) =>
        LET com == Current.com
            filename == Current.tok[1]
            structs == ChargeStructures(com, filename)
            fold == com \in {"jqh", "mqh"}
        IN  /\ cst'.err = "none"
            /\ \A k \in 1..Len(Appended) : Appended[k].com = Some(com)
            /\ \A i \in 1..Len(structs) :
               \A j \in 1..Len(structs[i].atoms) :
                    LET a == structs[i].atoms[j]
                        recs == {k \in 1..Len(Appended) :
                                    /\ Appended[k].idx_1 = Some(structs[i].num)
                                    /\ Appended[k].atm_1 = Some(a.index)}
                    IN  IF Usable(a) /\ (fold => ~a.aliph)
                        THEN /\ Cardinality(recs) = 1
                             /\ \A k \in recs : Appended[k].val =
                                    Some(IF fold
                                         THEN FoldedCharge(structs[i].atoms, a)
                                         ELSE a.partial_charge)
                        ELSE recs = {}
      ]_vars

\* The row and the column of the k-th element of the lower triangle in
\* row-major order, (1,1), (2,1), (2,2), (3,1), ...
RowOf(k) ==
    CHOOSE r \in 1..k :
        (r * (r - 1)) \div 2 < k /\ k <= (r * (r + 1)) \div 2

ColOf(k) == k - (RowOf(k) * (RowOf(k) - 1)) \div 2

\* A token of an eigen-data command names one file (geigz) or two.
EigenToken ==
    /\ Current.com \in {"geigz", "geigz2", "mgeig", "jeigz", "mjeig"}
    /\ Len(Current.tok) = IF Current.com = "geigz" THEN 1 ELSE 2

\* C10: a pass of an eigen-data command over a token whose matrix is N x N
\* appends N(N+1)/2 records, the k-th with idx_1 the row and idx_2 the
\* column of the k-th element of the lower triangle in row-major order,
\* and for geigz, geigz2 and jeigz with value 0 off the diagonal.
C10_LowerTriangle ==
    [][(Collecting /\ EigenToken) =>
        /\ cst'.err = "none"
        /\ Len(Appended) = (matN * (matN + 1)) \div 2
        /\ \A k \in 1..Len(Appended) :
            /\ Appended[k].idx_1 = Some(RowOf(k))
            /\ Appended[k].idx_2 = Some(ColOf(k))
            /\ (Current.com \in {"geigz", "geigz2", "jeigz"}
                    /\ RowOf(k) # ColOf(k)) => Appended[k].val = Some(0)
      ]_vars

\* The structures a command reads for the file of its token: those of the
\* file itself for the Jaguar commands, those of the .mae or .mmo MacroModel
\* wrote for it that carry the tag the command asks for otherwise.
StructuresRead(com, filename) ==
    IF com \in {"je", "jeo", "jq", "jqh"}
    THEN Disk(filename, matN).structures
    ELSE LET inp == MaeInput(filename)
             tag == IF com \in {"mq", "mqh", "me", "ja", "jb", "jt"}
                    THEN "pre" ELSE "opt"
         IN  IF com \in {"mq", "mqh", "me", "meo"}
             THEN select_structures(Disk(inp.name_mae, matN).structures,
                                    inp.index_output_mae, tag)
             ELSE select_structures(Disk(inp.name_mmo, matN).structures,
                                    inp.index_output_mmo, tag)

\* C11: collect_data does not skip missing data: a pass over a file for
\* which the command finds no structure (none parsed, or none with the tag
\* asked for) ends in an error.
C11_NoSilentSkip ==
    [][(/\ Collecting
        /\ Current.com \in {"je", "jeo", "jq", "jqh", "mq", "mqh", "me",
                            "meo", "ja", "jb", "jt", "ma", "mb", "mt"}
        /\ StructuresRead(Current.com, Current.tok[1]) = <<>>)
       => cst'.err # "none"
      ]_vars

\* The number of structures an energy command selects in the file of its
\* token: the first one for ge and geo.
EnergyStructures(com, filename) ==
    IF com \in {"ge", "geo"} THEN 1
    ELSE Len(StructuresRead(com, filename))

\* C12: a pass of an energy command over a file of the group at 0-based
\* position g appends one record per selected structure, with typ e for
\* je, me and ge, typ eo for jeo, meo and geo, and idx_1 = g + 1.
C12_EnergyRecords ==
    [][(Collecting
        /\ Current.com \in {"je", "jeo", "me", "meo", "ge", "geo"}) =>
        /\ cst'.err = "none"
        /\ Len(Appended) = EnergyStructures(Current.com, Current.tok[1])
        /\ \A k \in 1..Len(Appended) :
            /\ Appended[k].com = Some(Current.com)
            /\ Appended[k].typ =
                    IF Current.com \in {"je", "me", "ge"}
                    THEN Some(<<"e">>) ELSE Some(<<"e", "o">>)
            /\ Appended[k].idx_1 = Some(Current.grp_num + 1)
      ]_vars

\* C13: a line of a script file that is blank once its comment is stripped
\* is ignored: when run_loop_input comes to a line without columns of a
\* script read_loop_input has read, it goes on to the next line and raises
\* no error.
C13_BlankLinesIgnored ==
    [][(stack # <<>> /\ stack[1].lines \in ReadScripts
        /\ HasLine /\ Cols = <<>>)
       => (status' = "running" /\ stack' = SetTop(Advance(Top)))
      ]_vars

\* The data set (ref_conn or cal_conn) of the innermost active Loop that has
\* one: the one the most recent RDAT or CDAT of the active levels produced.
Retained(conn) ==
    LET has == {i \in 1..Len(stack) : stack[i][conn] # Unbound}
    IN  IF has = {} THEN Unbound
        ELSE stack[CHOOSE i \in has : \A j \in has : j <= i][conn]

\* C14: once an RDAT and a CDAT have executed at this level or an enclosing
\* one, a COMP compares the data sets they produced, and once an RDAT has,
\* a GRAD of a Loop with a force field optimizes against its data set.
C14_UsesRetainedData ==
    [][/\ (AtLine("COMP")
            /\ ((\E k \in 1..Len(Cols) : Cols[k] = "-o") => OutputOk(Cols))
            /\ Retained("ref_conn") # Unbound
            /\ Retained("cal_conn") # Unbound)
          => /\ status' = "running"
             /\ last'.op = "compare_data"
             /\ last'.ref = Retained("ref_conn")
             /\ last'.cal = Retained("cal_conn")
       /\ (AtLine("GRAD") /\ ~IsNone(Top.ff)
            /\ Retained("ref_conn") # Unbound)
          => /\ status' = "running"
             /\ last'.op = "gradient"
             /\ last'.ref = Retained("ref_conn")
      ]_vars

\* C15: a LOOP blocks its parent and directives run in script order.  While
\* a child Loop is active no enclosing Loop changes; a Loop is left only
\* when the while test of its opt_loop has failed, and then its parent is
\* where it was, at the line after the END, with the child's score as its
\* score; and a step of run_loop_input moves on in its lines.
C15_LoopBlocksParent ==
    [][LET n == Len(stack)
       IN  /\ Len(stack') >= n =>
                \A i \in 1..(n - 1) : stack'[i] = stack[i]
           /\ Len(stack') < n =>
                /\ Len(stack') = n - 1
                /\ Top.at = "while" /\ ~WhileCond(Top)
                /\ \A i \in 1..(n - 2) : stack'[i] = stack[i]
                /\ stack'[n - 1].pos = stack[n - 1].pos
                /\ stack'[n - 1].score = Top.score
           /\ (Len(stack') >= n /\ Top.at = "body" /\ status' = "running"
                    /\ stack'[n].at = "body")
                => stack'[n].pos > Top.pos
      ]_vars

\* The parent of a child Loop that has returned is at a directive after
\* the END, its score the one of the child's final cycle.
C15_Witness ==
    /\ Running
    /\ Len(stack) = 1
    /\ Top.loop # Unbound
    /\ Val(Top.loop).current_cycle_num >= 2
    /\ Top.pos <= Len(Top.lines)
    /\ Top.score = Val(Top.loop).score

\* The constituent filenames of the tokens of the groups of command c.
NamesOf(tab, c) ==
    {tab[c][g][f][i] : <<g, f, i>> \in
        {x \in (1..Len(tab[c])) \X (1..2) \X (1..2) :
            /\ x[2] <= Len(tab[c][x[1]])
            /\ x[3] <= Len(tab[c][x[1]][x[2]])}}

\* sort_commands_by_filename lists command c for the filename.
Routed(tab, ord, name, c) ==
    LET cmds == sort_commands_by_filename(tab, ord, name)
    IN  \E k \in 1..Len(cmds) : cmds[k] = c

\* C16: regrouping the result of sort_commands_by_filename by command gives
\* back, for each command of the table, the constituent filenames of its
\* groups, comma-joined tokens split: none is lost and none is added.
C16_RoundTrip ==
    /\ \A c \in DOMAIN coms : \A name \in NamesOf(coms, c) :
            Routed(coms, order, name, c)
    /\ \A name \in FileNames \cup {"ref.txt"} :
            LET cmds == sort_commands_by_filename(coms, order, name)
            IN  \A k \in 1..Len(cmds) :
                    /\ cmds[k] \in DOMAIN coms
                    /\ name \in NamesOf(coms, cmds[k])

\* collect_data has used inps for a table of two commands that share a
\* file, one of them with tokens of two files.
C16_Witness ==
    /\ DOMAIN coms = {"me", "mjeig"}
    /\ "a.mae" \in NamesOf(coms, "me") \cap NamesOf(coms, "mjeig")
    /\ Routed(coms, order, "b.out", "mjeig")
    /\ Ended

\* C17: a line whose first column is none of FFLD, PARM, LOOP, RDAT, CDAT,
\* COMP, GRAD is a no-op: no error, no call, the Loop's force field, its
\* lines, score, argument lists and data sets are as before, and
\* run_loop_input is at the next line.
C17_UnrecognizedNoOp ==
    [][(/\ HasLine
        /\ Cols # <<>>
        /\ Cols[1] \notin {"FFLD", "PARM", "LOOP", "RDAT", "CDAT", "COMP",
                           "GRAD"})
       => /\ status' = "running"
          /\ last' = last
          /\ Len(stack') = Len(stack)
          /\ \A i \in 1..(Len(stack) - 1) : stack'[i] = stack[i]
          /\ stack'[Len(stack)] = [Top EXCEPT !.pos = Top.pos + 1]
      ]_vars

\* A Loop that holds a score and data sets has passed a SIMP line.
C17_Witness ==
    /\ Running
    /\ Top.at = "body"
    /\ Top.pos > 1
    /\ Top.lines[Top.pos - 1] = <<"SIMP">>
    /\ Top.score # None
    /\ Top.ref_conn # Unbound

\* C18: a LOOP that no END line follows in the lines being interpreted
\* aborts the run with an error: run_loop_input returns no score, no child
\* Loop is made and no cycle of the body runs.
C18_MissingEndAborts ==
    [][(/\ AtLine("LOOP")
        /\ \A j \in (Top.pos + 1)..Len(Top.lines) :
                ~IsEndLine(Top.lines[j]))
       => /\ status' \notin {"running", "done"}
          /\ stack' = stack
          /\ created' = created
          /\ last' = last
      ]_vars

\* The run has ended in StopIteration at the LOOP of a script without END.
C18_Witness ==
    /\ status = "StopIteration"
    /\ stack[1].lines = NoEnd("0.02")
    /\ Cols[1] = "LOOP"
    /\ created = 0

\* The columns read_reference finds on a line it does not skip.
ParsedCols(line) ==
    IF line # <<>> /\ line[1] = "-" THEN <<>>
    ELSE SplitWhitespace(PartitionHead(line, "#"))

\* A line read_reference parses into three columns, the label of which has
\* not 3 or 4 parts between underscores.
MalformedLabelLine(line) ==
    /\ Len(ParsedCols(line)) = 3
    /\ Len(SplitOn(ParsedCols(line)[1], "_")) \notin {3, 4}

\* C19: for a reference file with a three-column line whose label has not
\* exactly 3 or 4 underscore-separated parts, read_reference fails with an
\* error: no record of the file is added, neither of that line nor of the
\* lines before it, and no record sequence is returned.
C19_MalformedLabelFails ==
    [][(\E i \in 1..Len(ref) : MalformedLabelLine(ref[i]))
       => /\ cst'.data = <<>>
          /\ returned' = None
          /\ (cpos' > 1 => cst'.err # "none")
      ]_vars

\* The pass over a file of a good line and then a line with a label of two
\* parts has ended in an error and left no record.
C19_Witness ==
    /\ ref = <<RefLines[4], RefLines[9]>>
    /\ cpos = 2
    /\ cst.err = "UnboundLocalError"
    /\ cst.data = <<>>
    /\ returned = None

\* A line that starts with '-', or has nothing but whitespace before its
\* end or its first '#'.
NoDataLine(line) ==
    \/ line # <<>> /\ line[1] = "-"
    \/ \A i \in 1..Len(line) :
            line[i] \in Whitespace \/ \E j \in 1..i : line[j] = "#"

C21_ZeroScoreFails ==
    [][/\ (/\ Running
           /\ Len(stack) > 1
           /\ Top.at = "while"
           /\ Top.score = Some(0)
           /\ stack' # stack)
          => /\ Len(stack') = Len(stack)
             /\ stack'[Len(stack)].at = "body"
             /\ stack'[Len(stack)].pos = 1
             /\ stack'[Len(stack)].lines = Val(Top.loop_lines)
             /\ stack'[Len(stack)].score_prev = Some(0)
             /\ status' = "running"
       /\ \A k \in 2..Len(stack) :
            (Running /\ stack[k].at = "body"
                     /\ stack[k].score_prev = Some(0))
            => /\ Len(stack') >= k
               /\ stack'[k].at = "body"
               /\ stack'[k].score_prev = Some(0)
               /\ (k = Len(stack) /\ Top.pos > Len(Top.lines))
                    => (status' = "ZeroDivisionError" /\ stack' = stack)
      ]_vars

\* A cycle that started with a score of 0 has run its lines, which gave
\* another score, and ended in ZeroDivisionError.
C21_Witness ==
    /\ status = "ZeroDivisionError"
    /\ Len(stack) > 1
    /\ Top.score_prev = Some(0)
    /\ Top.score \notin {None, Some(0)}
    /\ Top.current_cycle_num >= 1
    /\ Len(Top.lines) >= 1
    /\ Top.pos > Len(Top.lines)

==========================================================================
